---- MODULE Spec2Model ----
(***************************************************************************)
(* Model of the reservation scraper: the process loop of                   *)
(* cmd/scraper main, Browser.CheckAvailability and the LINE notifier.      *)
(* Time is counted in whole seconds.  The browser engine and the HTTP      *)
(* transport are black boxes whose outcomes are chosen nondeterministically.*)
(***************************************************************************)
EXTENDS Integers, Sequences, FiniteSets, TLC

\* ---------------------------------------------------------------- bounds
\* largest page budget handed to browser.New
MaxPages == 2
\* cap on the consecutive-error counter (18*18 is the first square above 300)
MaxErrors == 18
\* duration, in seconds, of a slow browser or HTTP step: as long as the whole
\* timeout (a fast one takes 0; the sleeps add the times in between)
StepTime == 300
\* largest value of the consecutive-error counter whose backoff is computed
\* on its own (the 64-bit product first leaves the positive range at 96039)
MaxCount == 96100

\* ------------------------------------------------------ program constants
\* maxRetries := 3
maxRetries == 3
\* context.WithTimeout(ctx, 5*time.Minute), in seconds
Timeout == 300
\* backoff ceiling 5*time.Minute, in seconds
BackoffCap == 300
\* time.Sleep(15 * time.Minute), in seconds
Interval == 900
\* http.StatusOK
StatusOK == 200

\* ------------------------------------------------------------ environment
\* slot lists a Page Query can return (slots are named by small numbers)
SlotLists == {<<>>, <<1>>, <<1, 2>>}
\* time a browser step or an HTTP round trip can take
Durations == {0, StepTime}
\* HTTP status codes the messaging endpoint can answer with
Statuses == {200, 204, 500}

VARIABLES
    pc,                \* position of the process
    maxPages,          \* Browser.maxPages
    noNotify,          \* Client.noNotify (and main's noNotify)
    credsOK,           \* channelToken and userID both non-empty
    consecutiveErrors, \* main's consecutiveErrors
    retry,             \* CheckAvailability's retry
    pagesChecked,      \* CheckAvailability's pagesChecked
    page,              \* number of the page the browser shows (0 = none)
    retSlots,          \* slots returned by the latest CheckAvailability
    retErr,            \* error returned by the latest CheckAvailability
    elapsed,           \* seconds since browser.New set the deadline
    cycleElapsed,      \* seconds since the running cycle started
    trace,             \* browser steps of the running call, in order
    errsSinceOk,       \* history: error returns since the last nil return
    notifyCalls,       \* history: Notifier calls since the cycle started
    httpReqs,          \* history: HTTP requests since the cycle started
    notifyErr,         \* history: the latest Notifier call returned an error
    lastHttp,          \* history: outcome of the latest HTTP request
    lastWait,          \* history: the latest sleep of the process loop
    snapshot,          \* the table and the Tokyo time a Page Query runs on
    pageSlots,         \* the slots that Page Query returned
    backoffNanos       \* main's backoffDuration in nanoseconds, an int64

vars == <<pc, maxPages, noNotify, credsOK, consecutiveErrors, retry,
          pagesChecked, page, retSlots, retErr, elapsed, cycleElapsed, trace,
          errsSinceOk, notifyCalls, httpReqs, notifyErr, lastHttp, lastWait,
          snapshot, pageSlots, backoffNanos>>

browserVars == <<retry, pagesChecked, page, trace>>
notifierVars == <<notifyCalls, httpReqs, notifyErr, lastHttp>>
pageVars == <<snapshot, pageSlots>>
auxVars == <<pageVars, backoffNanos>>
mainVars == <<maxPages, noNotify, credsOK, consecutiveErrors, retry,
              pagesChecked, page, retSlots, retErr, elapsed, cycleElapsed,
              trace, errsSinceOk, notifyCalls, httpReqs, notifyErr, lastHttp,
              lastWait>>

Min(a, b) == IF a < b THEN a ELSE b

\* a clock that stops counting once the deadline is reached
Adv(t, d) == Min(t + d, Timeout)

NoWait == [kind |-> "none", secs |-> 0]

NoHttp == [sent |-> FALSE, transportOK |-> FALSE, status |-> 0]

\* what client.Do(req) gave: a transport error, or a response with a status
HttpOutcome(r, transportOK, status) ==
    IF r.reqs = 0 THEN NoHttp
    ELSE [sent |-> TRUE, transportOK |-> transportOK,
          status |-> IF transportOK THEN status ELSE 0]

\* ------------------------------------------------------------- notifier
\* sendMessage that accepts every 2xx status
sendMessage_Any2xx(creds, transportOK, status) ==
    IF ~creds THEN [err |-> TRUE, reqs |-> 0]
    ELSE IF ~transportOK THEN [err |-> TRUE, reqs |-> 1]
    ELSE IF status < 200 \/ status > 299 THEN [err |-> TRUE, reqs |-> 1]
    ELSE [err |-> FALSE, reqs |-> 1]

\* Client.sendMessage: result of one send; reqs = HTTP requests issued
sendMessage(creds, transportOK, status) ==
    IF ~creds THEN [err |-> TRUE, reqs |-> 0]
    ELSE IF ~transportOK THEN [err |-> TRUE, reqs |-> 1]
    ELSE IF status # StatusOK THEN [err |-> TRUE, reqs |-> 1]
    ELSE [err |-> FALSE, reqs |-> 1]

\* NotifyAvailableSlots without the check of the disabled flag
NotifyAvailableSlots_NoFlagCheck(slots, disabled, creds, transportOK, status) ==
    IF Len(slots) = 0 THEN [err |-> FALSE, reqs |-> 0]
    ELSE sendMessage(creds, transportOK, status)

\* Client.NotifyAvailableSlots
NotifyAvailableSlots(slots, disabled, creds, transportOK, status) ==
    IF Len(slots) = 0 THEN [err |-> FALSE, reqs |-> 0]
    ELSE IF disabled THEN [err |-> FALSE, reqs |-> 0]
    ELSE sendMessage(creds, transportOK, status)

\* Client.TestNotification: sends a sample slot list through the same path
TestNotification(disabled, creds, transportOK, status) ==
    NotifyAvailableSlots(<<1, 2>>, disabled, creds, transportOK, status)

\* ------------------------------------------------------ Page Query Logic
\* config.GetTarget(false): the real target
Target == [location |-> "Fuchu", category |-> "ResidentOther"]

\* the text "MM/DD" as its four digits
DateText(m, d) == <<m \div 10, m % 10, d \div 10, d % 10>>

\* a header cell without a date, and the lookup of a column without entry
NoDate == <<>>

\* calendar inputs: months, days of the month, seconds after midnight
Months == {1, 12}
Days == {1, 15}
TimesOfDay == {0, 1}

\* texts a header cell can yield after the match of \d{2}/\d{2}
HeaderTexts == {NoDate} \cup {DateText(m, d) : m \in Months, d \in Days}

\* cells of a data row: classes tdSelect and enable, the status icons
CellKinds ==
    { [tdSelect |-> FALSE, enable |-> FALSE, availableSVG |-> FALSE, closedMark |-> FALSE],
      [tdSelect |-> TRUE,  enable |-> FALSE, availableSVG |-> TRUE,  closedMark |-> FALSE],
      [tdSelect |-> TRUE,  enable |-> TRUE,  availableSVG |-> FALSE, closedMark |-> FALSE],
      [tdSelect |-> TRUE,  enable |-> TRUE,  availableSVG |-> TRUE,  closedMark |-> FALSE],
      [tdSelect |-> TRUE,  enable |-> TRUE,  availableSVG |-> TRUE,  closedMark |-> TRUE] }

\* id, location text and category text of a row
RowHeads ==
    { [id |-> "", location |-> "Fuchu", category |-> "ResidentOther"],
      [id |-> "", location |-> "Koto", category |-> "ResidentOther"],
      [id |-> "", location |-> "Fuchu", category |-> "Resident29"],
      [id |-> "height_head", location |-> "Fuchu", category |-> "ResidentOther"] }

NoSnapshot == [now |-> [month |-> 1, day |-> 1, tod |-> 0],
               header |-> <<>>, rows |-> <<>>]

\* days before the first of each month (Date arithmetic, common year)
DaysBefore == <<0, 31, 59, 90, 120, 151, 181, 212, 243, 273, 304, 334>>

\* new Date(year, month - 1, day) plus secs, as seconds since the start of
\* the current year (year 0); a day past the end of its month rolls over
\* as in JavaScript
DateValue(year, month, day, secs) ==
    (year * 365 + DaysBefore[month] + (day - 1)) * 86400 + secs

\* dateMap.get(cellIndex)
DateMapGet(header, cellIndex) ==
    IF cellIndex <= Len(header) THEN header[cellIndex] ELSE NoDate

\* parseInt of the two digits of the month and of the day
ParseMonth(dateText) == dateText[1] * 10 + dateText[2]
ParseDay(dateText) == dateText[3] * 10 + dateText[4]

\* SlotDate that always takes the date as one of next year
SlotDate_AlwaysNextYear(dateText, now) ==
    DateValue(1, ParseMonth(dateText), ParseDay(dateText), 0)

\* lines 255-265: the slot's date at midnight, in next year when its month
\* is lower than the current month
SlotDate(dateText, now) ==
    LET month == ParseMonth(dateText)
        day   == ParseDay(dateText)
    IN IF month < now.month
       THEN DateValue(1, month, day, 0)
       ELSE DateValue(0, month, day, 0)

\* NowValue that drops the time of day
NowValue_Midnight(now) == DateValue(0, now.month, now.day, 0)

\* line 255: now as a Date, with the Tokyo time of day
NowValue(now) == DateValue(0, now.month, now.day, now.tod)

\* Selectable without the check of the class enable
Selectable_NoEnable(cell) == cell.tdSelect

\* lines 219-223: the cell has the classes tdSelect and enable
Selectable(cell) == cell.tdSelect /\ cell.enable

\* ClosedMark that never finds a marker
ClosedMark_Never(cell) == FALSE

\* lines 273-278: the cell carries a closed marker
ClosedMark(cell) == cell.closedMark

\* lines 219-278: the checks one cell passes before it is pushed
CellQualifies(snap, cell, cellIndex) ==
    /\ Selectable(cell)
    /\ cell.availableSVG
    /\ DateMapGet(snap.header, cellIndex) # NoDate
    /\ ~(SlotDate(DateMapGet(snap.header, cellIndex), snap.now) < NowValue(snap.now))
    /\ ~ClosedMark(cell)

\* lines 194-212: the row is not a header row and matches the target
RowMatches(row) ==
    /\ row.head.id \notin {"height_head", "height_headday"}
    /\ row.head.location = Target.location
    /\ row.head.category = Target.category

RECURSIVE CellSlots(_, _, _)
\* cells.forEach: the slots pushed for the cells cellIndex.. of a row
CellSlots(snap, row, cellIndex) ==
    IF cellIndex > Len(row.cells) THEN <<>>
    ELSE (IF CellQualifies(snap, row.cells[cellIndex], cellIndex)
          THEN << [location  |-> row.head.location,
                   category  |-> row.head.category,
                   date      |-> DateMapGet(snap.header, cellIndex),
                   available |-> TRUE] >>
          ELSE <<>>)
         \o CellSlots(snap, row, cellIndex + 1)

RECURSIVE RowSlots(_, _)
\* rows.forEach: the slots pushed for the rows rowIndex..
RowSlots(snap, rowIndex) ==
    IF rowIndex > Len(snap.rows) THEN <<>>
    ELSE (IF RowMatches(snap.rows[rowIndex])
          THEN CellSlots(snap, snap.rows[rowIndex], 1)
          ELSE <<>>)
         \o RowSlots(snap, rowIndex + 1)

\* findAvailableSlots()
findAvailableSlots(snap) == RowSlots(snap, 1)

\* ------------------------------------------------- 64-bit signed integers
\* an int64 (int, time.Duration) is held as its 8 bytes, lowest first, in
\* two's complement; products wrap as Go's do
Pow256 == <<1, 256, 65536, 16777216>>

\* the int64 of a number between 0 and 2^31 - 1
ToInt64(x) == [i \in 1..8 |-> IF i <= 4 THEN (x \div Pow256[i]) % 256 ELSE 0]

RECURSIVE ColumnSum(_, _, _, _)
\* sum of the byte products a[i] * b[k+1-i] that fall on byte k
ColumnSum(a, b, k, i) ==
    IF i > k THEN 0
    ELSE a[i] * b[k + 1 - i] + ColumnSum(a, b, k, i + 1)

RECURSIVE MulBytes(_, _, _, _)
\* bytes k..8 of the product, the carry out of byte 8 is dropped
MulBytes(a, b, k, carry) ==
    IF k > 8 THEN <<>>
    ELSE LET t == ColumnSum(a, b, k, 1) + carry
         IN <<t % 256>> \o MulBytes(a, b, k + 1, t \div 256)

\* a * b on int64: the low 64 bits of the product
Mul64(a, b) == MulBytes(a, b, 1, 0)

\* the sign bit
Negative(a) == a[8] >= 128

RECURSIVE LessFrom(_, _, _)
\* a < b as unsigned numbers, compared from byte i downwards
LessFrom(a, b, i) ==
    IF i = 0 THEN FALSE
    ELSE IF a[i] # b[i] THEN a[i] < b[i]
    ELSE LessFrom(a, b, i - 1)

\* a < b on int64
Less64(a, b) ==
    IF Negative(a) # Negative(b) THEN Negative(a) ELSE LessFrom(a, b, 8)

\* time.Second and 5*time.Minute, in nanoseconds
Second == ToInt64(1000000000)
FiveMinutes == Mul64(ToInt64(5 * 60), Second)

\* main lines 187-190: time.Duration(n*n) * time.Second, set to 5 minutes
\* when it is greater
Backoff(n) ==
    LET d == Mul64(Mul64(ToInt64(n), ToInt64(n)), Second)
    IN IF Less64(FiveMinutes, d) THEN FiveMinutes ELSE d

\* --------------------------------------------------------- process loop
\* BackoffSeconds without the ceiling
BackoffSeconds_NoCap(n) == n * n

\* main lines 187-191: backoff in seconds after n consecutive errors (the
\* whole seconds of Backoff(n) as long as n stays below the bound MaxErrors)
BackoffSeconds(n) == IF n * n > BackoffCap THEN BackoffCap ELSE n * n

Init ==
    /\ pc = "startup"
    /\ maxPages \in 0..MaxPages
    /\ \E flag \in BOOLEAN, creds \in BOOLEAN :
          /\ credsOK = creds
          /\ noNotify = (flag \/ ~creds)
    /\ consecutiveErrors = 0
    /\ retry = 0
    /\ pagesChecked = 0
    /\ page = 0
    /\ retSlots = <<>>
    /\ retErr = FALSE
    /\ elapsed = 0
    /\ cycleElapsed = 0
    /\ trace = <<>>
    /\ errsSinceOk = 0
    /\ notifyCalls = 0
    /\ httpReqs = 0
    /\ notifyErr = FALSE
    /\ lastHttp = NoHttp
    /\ lastWait = NoWait
    /\ snapshot = NoSnapshot
    /\ pageSlots = <<>>
    /\ backoffNanos = ToInt64(0)

\* DisabledAfterTest that only logs the failure, as the notify-test mode does
DisabledAfterTest_LogOnly(err) == FALSE

\* main lines 168-173: a failed start-up test sets noNotify and replaces the
\* client by a disabled one
DisabledAfterTest(err) == err

\* main, lines 153-177: the notify-test mode and the start-up test notification
Startup ==
    /\ pc = "startup"
    /\ UNCHANGED auxVars
    /\ \E testNotification \in BOOLEAN, d \in Durations,
          transportOK \in BOOLEAN, status \in Statuses :
          LET r == TestNotification(noNotify, credsOK, transportOK, status) IN
          IF testNotification
          THEN /\ pc' = "exit"
               /\ httpReqs' = r.reqs
               /\ notifyErr' = r.err
               /\ lastHttp' = HttpOutcome(r, transportOK, status)
               /\ UNCHANGED <<noNotify, elapsed>>
          ELSE IF ~noNotify
          THEN /\ pc' = "loop"
               /\ httpReqs' = r.reqs
               /\ notifyErr' = r.err
               /\ lastHttp' = HttpOutcome(r, transportOK, status)
               /\ noNotify' = DisabledAfterTest(r.err)
               /\ elapsed' = Adv(elapsed, IF r.reqs > 0 THEN d ELSE 0)
          ELSE /\ pc' = "loop"
               /\ UNCHANGED <<httpReqs, notifyErr, lastHttp, noNotify, elapsed>>
    /\ UNCHANGED <<maxPages, credsOK, consecutiveErrors, browserVars, retSlots,
                   retErr, cycleElapsed, errsSinceOk, notifyCalls, lastWait>>

\* ------------------------------------------------- Browser.CheckAvailability
\* one entry of the trace of browser steps
Step(op, out, slots, enabled) ==
    [op |-> op, out |-> out, page |-> page, slots |-> slots, enabled |-> enabled]

\* outcomes of a chromedp.Run that ends when the deadline clock shows t
Outcomes(t) == IF t >= Timeout THEN {"timeout"} ELSE {"ok", "fail", "panic"}

\* CheckAvailability returns (slots, err) to the process loop
Return(slots, err) ==
    /\ pc' = "returned"
    /\ retSlots' = slots
    /\ retErr' = err
    /\ errsSinceOk' = IF err THEN errsSinceOk + 1 ELSE 0

\* Recovered without the deferred recover(): the panic ends the process
Recovered_Crash ==
    /\ pc' = "exit"
    /\ UNCHANGED <<retSlots, retErr, errsSinceOk>>

\* Recovered that reports the recovered panic as an error of the call
Recovered_AsError == Return(<<>>, TRUE)

\* the deferred recover(): the unnamed results stay at their zero values
Recovered == Return(<<>>, FALSE)

\* LoopTop with the page budget off by one
LoopTop_OffByOne(checked) ==
    IF checked <= maxPages
    THEN /\ pc' = "wait"
         /\ UNCHANGED <<retSlots, retErr, errsSinceOk>>
    ELSE Return(<<>>, FALSE)

\* for pagesChecked < b.maxPages: enter the body or fall out to "No slots found"
LoopTop(checked) ==
    IF checked < maxPages
    THEN /\ pc' = "wait"
         /\ UNCHANGED <<retSlots, retErr, errsSinceOk>>
    ELSE Return(<<>>, FALSE)

\* NavFailed with one attempt too many
NavFailed_ExtraAttempt ==
    /\ retry' = retry + 1
    /\ IF retry + 1 <= maxRetries
       THEN UNCHANGED <<pc, retSlots, retErr, errsSinceOk>>
       ELSE Return(<<>>, TRUE)

\* lines 79, 91-97: a failed attempt is retried until maxRetries attempts failed
NavFailed ==
    /\ retry' = retry + 1
    /\ IF retry + 1 < maxRetries
       THEN UNCHANGED <<pc, retSlots, retErr, errsSinceOk>>
       ELSE Return(<<>>, TRUE)

\* StepFailed that logs the failure and ends the call without an error
StepFailed_Swallowed == Return(<<>>, FALSE)

\* lines 108-110, 134-136, 145-147: return nil, fmt.Errorf(...)
StepFailed == Return(<<>>, TRUE)

\* AfterQuery that keeps paging after slots were found
AfterQuery_KeepPaging(availableSlots) ==
    /\ pc' = "readNext"
    /\ retSlots' = availableSlots
    /\ UNCHANGED <<retErr, errsSinceOk>>

\* lines 120-128: return the slots immediately when the page has any
AfterQuery(availableSlots) ==
    IF Len(availableSlots) > 0
    THEN Return(availableSlots, FALSE)
    ELSE /\ pc' = "readNext"
         /\ UNCHANGED <<retSlots, retErr, errsSinceOk>>

\* EvaluateFailed that returns the error of the evaluation to the caller
EvaluateFailed_Fatal == Return(<<>>, TRUE)

\* lines 116-120: a failed Evaluate is logged only; availableSlots is still
\* nil, so the length test fails and the body goes on to the next control
EvaluateFailed == AfterQuery(<<>>)

\* AfterReadNext that clicks the control whatever its state
AfterReadNext_AlwaysClick(nextButtonEnabled) ==
    /\ pc' = "click"
    /\ UNCHANGED <<retSlots, retErr, errsSinceOk>>

\* lines 138-140: a disabled control ends the paging
AfterReadNext(nextButtonEnabled) ==
    IF ~nextButtonEnabled
    THEN Return(<<>>, FALSE)
    ELSE /\ pc' = "click"
         /\ UNCHANGED <<retSlots, retErr, errsSinceOk>>

\* LandingPage of a browser that keeps the page it already shows
LandingPage_Stay(shown) == IF shown = 0 THEN 1 ELSE shown

\* chromedp.Navigate(config.BaseURL): the fixed URL shows the first page,
\* whatever page was shown before
LandingPage(shown) == 1

\* line 153: the page count of the log line "No slots found (checked %d pages"
LoggedPages == pagesChecked + 1

\* main line 182: the process loop calls b.CheckAvailability()
StartCycle ==
    /\ pc = "loop"
    /\ UNCHANGED auxVars
    /\ pc' = "nav"
    /\ retry' = 0
    /\ pagesChecked' = 0
    /\ trace' = <<>>
    /\ cycleElapsed' = 0
    /\ notifyCalls' = 0
    /\ httpReqs' = 0
    /\ notifyErr' = FALSE
    /\ lastHttp' = NoHttp
    /\ UNCHANGED <<maxPages, noNotify, credsOK, consecutiveErrors, page,
                   retSlots, retErr, elapsed, errsSinceOk, lastWait>>

\* one pass of the retry loop: sleep, Navigate, WaitVisible
Navigate ==
    /\ pc = "nav"
    /\ UNCHANGED auxVars
    /\ \E d \in Durations :
          LET sl == IF retry > 0 THEN retry ELSE 0
              t  == Adv(elapsed, sl + d)
          IN
          /\ elapsed' = t
          /\ cycleElapsed' = Adv(cycleElapsed, sl + d)
          /\ \E out \in Outcomes(t) :
                /\ trace' = Append(trace, Step("nav", out, <<>>, FALSE))
                /\ CASE out = "ok" ->
                          /\ page' = LandingPage(page)
                          /\ UNCHANGED <<retry, pagesChecked>>
                          /\ LoopTop(pagesChecked)
                     [] out = "panic" ->
                          /\ UNCHANGED <<retry, pagesChecked, page>>
                          /\ Recovered
                     [] OTHER ->
                          /\ UNCHANGED <<pagesChecked, page>>
                          /\ NavFailed
    /\ UNCHANGED <<maxPages, noNotify, credsOK, consecutiveErrors,
                   notifierVars, lastWait>>

\* lines 104-110: wait for the table and the status icons
WaitElements ==
    /\ pc = "wait"
    /\ UNCHANGED auxVars
    /\ \E d \in Durations :
          LET t == Adv(elapsed, d) IN
          /\ elapsed' = t
          /\ cycleElapsed' = Adv(cycleElapsed, d)
          /\ \E out \in Outcomes(t) :
                /\ trace' = Append(trace, Step("wait", out, <<>>, FALSE))
                /\ CASE out = "ok" ->
                          /\ pc' = "query"
                          /\ UNCHANGED <<retSlots, retErr, errsSinceOk>>
                     [] out = "panic" -> Recovered
                     [] OTHER -> StepFailed
    /\ UNCHANGED <<maxPages, noNotify, credsOK, consecutiveErrors, retry,
                   pagesChecked, page, notifierVars, lastWait>>

\* lines 112-128: evaluate the Page Query script, return when it found slots
Query ==
    /\ pc = "query"
    /\ UNCHANGED auxVars
    /\ \E d \in Durations :
          LET t == Adv(elapsed, d) IN
          /\ elapsed' = t
          /\ cycleElapsed' = Adv(cycleElapsed, d)
          /\ \E out \in Outcomes(t), found \in SlotLists :
                LET availableSlots == IF out = "ok" THEN found ELSE <<>> IN
                /\ found = availableSlots  \* a failed Evaluate leaves the list nil
                /\ trace' = Append(trace, Step("query", out, availableSlots, FALSE))
                /\ CASE out = "ok" -> AfterQuery(availableSlots)
                     [] out = "panic" -> Recovered
                     [] OTHER -> EvaluateFailed
    /\ UNCHANGED <<maxPages, noNotify, credsOK, consecutiveErrors, retry,
                   pagesChecked, page, notifierVars, lastWait>>

\* lines 130-140: read whether the next-period control is enabled
ReadNext ==
    /\ pc = "readNext"
    /\ UNCHANGED auxVars
    /\ \E d \in Durations :
          LET t == Adv(elapsed, d) IN
          /\ elapsed' = t
          /\ cycleElapsed' = Adv(cycleElapsed, d)
          /\ \E out \in Outcomes(t), enabled \in BOOLEAN :
                LET nextButtonEnabled == (out = "ok") /\ enabled IN
                /\ enabled = nextButtonEnabled  \* read only when Evaluate succeeds
                /\ trace' = Append(trace, Step("readNext", out, <<>>, nextButtonEnabled))
                /\ CASE out = "ok" -> AfterReadNext(nextButtonEnabled)
                     [] out = "panic" -> Recovered
                     [] OTHER -> StepFailed
    /\ UNCHANGED <<maxPages, noNotify, credsOK, consecutiveErrors, retry,
                   pagesChecked, page, notifierVars, lastWait>>

\* lines 142-149: click the next-period control, wait for the table
Click ==
    /\ pc = "click"
    /\ UNCHANGED auxVars
    /\ \E d \in Durations :
          LET t == Adv(elapsed, d) IN
          /\ elapsed' = t
          /\ cycleElapsed' = Adv(cycleElapsed, d)
          /\ \E out \in Outcomes(t) :
                /\ trace' = Append(trace, Step("click", out, <<>>, FALSE))
                /\ CASE out = "ok" ->
                          /\ page' = page + 1
                          /\ pagesChecked' = pagesChecked + 1
                          /\ LoopTop(pagesChecked + 1)
                     [] out = "panic" ->
                          /\ UNCHANGED <<page, pagesChecked>>
                          /\ Recovered
                     [] OTHER ->
                          /\ UNCHANGED <<page, pagesChecked>>
                          /\ StepFailed
    /\ UNCHANGED <<maxPages, noNotify, credsOK, consecutiveErrors, retry,
                   notifierVars, lastWait>>

\* ------------------------------------------------------------ process loop
\* main lines 183-194: count the error, back off, continue
HandleError ==
    /\ pc = "returned"
    /\ UNCHANGED auxVars
    /\ retErr
    /\ consecutiveErrors < MaxErrors
    /\ consecutiveErrors' = consecutiveErrors + 1
    /\ LET backoffDuration == BackoffSeconds(consecutiveErrors + 1) IN
          /\ lastWait' = [kind |-> "backoff", secs |-> backoffDuration]
          /\ elapsed' = Adv(elapsed, backoffDuration)
    /\ pc' = "loop"
    /\ UNCHANGED <<maxPages, noNotify, credsOK, browserVars, retSlots, retErr,
                   cycleElapsed, errsSinceOk, notifierVars>>

\* HandleOk that forgets to reset the counter
HandleOk_NoReset ==
    /\ pc = "returned"
    /\ UNCHANGED auxVars
    /\ ~retErr
    /\ pc' = IF Len(retSlots) > 0 THEN "notify" ELSE "sleep"
    /\ UNCHANGED <<maxPages, noNotify, credsOK, consecutiveErrors, browserVars,
                   retSlots, retErr, elapsed, cycleElapsed, errsSinceOk,
                   notifierVars, lastWait>>

\* HandleOk that calls the Notifier whatever the slot list
HandleOk_AlwaysNotify ==
    /\ pc = "returned"
    /\ UNCHANGED auxVars
    /\ ~retErr
    /\ consecutiveErrors' = 0
    /\ pc' = "notify"
    /\ UNCHANGED <<maxPages, noNotify, credsOK, browserVars, retSlots, retErr,
                   elapsed, cycleElapsed, errsSinceOk, notifierVars, lastWait>>

\* main lines 195-198: reset the counter, decide whether to notify
HandleOk ==
    /\ pc = "returned"
    /\ UNCHANGED auxVars
    /\ ~retErr
    /\ consecutiveErrors' = 0
    /\ pc' = IF Len(retSlots) > 0 THEN "notify" ELSE "sleep"
    /\ UNCHANGED <<maxPages, noNotify, credsOK, browserVars, retSlots, retErr,
                   elapsed, cycleElapsed, errsSinceOk, notifierVars, lastWait>>

\* NotifyResult that treats a notifier error like a failed cycle
NotifyResult_ErrFatal(err) ==
    IF err
    THEN /\ pc' = "loop"
         /\ consecutiveErrors' = consecutiveErrors + 1
         /\ lastWait' = [kind |-> "backoff",
                         secs |-> BackoffSeconds(consecutiveErrors + 1)]
    ELSE /\ pc' = "sleep"
         /\ UNCHANGED <<consecutiveErrors, lastWait>>

\* main lines 199-202: a notifier error is logged and nothing else
NotifyResult(err) ==
    /\ pc' = "sleep"
    /\ UNCHANGED <<consecutiveErrors, lastWait>>

\* main lines 199-201: lineClient.NotifyAvailableSlots(slots), error only logged
Notify ==
    /\ pc = "notify"
    /\ UNCHANGED auxVars
    /\ \E d \in Durations, transportOK \in BOOLEAN, status \in Statuses :
          LET r == NotifyAvailableSlots(retSlots, noNotify, credsOK, transportOK, status) IN
          /\ notifyCalls' = notifyCalls + 1
          /\ httpReqs' = httpReqs + r.reqs
          /\ notifyErr' = r.err
          /\ lastHttp' = HttpOutcome(r, transportOK, status)
          /\ elapsed' = Adv(elapsed, IF r.reqs > 0 THEN d ELSE 0)
          /\ NotifyResult(r.err)
    /\ UNCHANGED <<maxPages, noNotify, credsOK, browserVars,
                   retSlots, retErr, cycleElapsed, errsSinceOk>>

\* Sleep in a program that runs one check and ends instead of looping
Sleep_Exits ==
    /\ pc = "sleep"
    /\ UNCHANGED auxVars
    /\ pc' = "exit"
    /\ UNCHANGED <<maxPages, noNotify, credsOK, consecutiveErrors, browserVars,
                   retSlots, retErr, elapsed, cycleElapsed, errsSinceOk,
                   notifierVars, lastWait>>

\* main lines 204-213: time.Sleep(15 * time.Minute)
Sleep ==
    /\ pc = "sleep"
    /\ UNCHANGED auxVars
    /\ lastWait' = [kind |-> "interval", secs |-> Interval]
    /\ elapsed' = Adv(elapsed, Interval)
    /\ pc' = "loop"
    /\ UNCHANGED <<maxPages, noNotify, credsOK, consecutiveErrors, browserVars,
                   retSlots, retErr, cycleElapsed, errsSinceOk, notifierVars>>

Next ==
    \/ Startup
    \/ StartCycle
    \/ Navigate
    \/ WaitElements
    \/ Query
    \/ ReadNext
    \/ Click
    \/ HandleError
    \/ HandleOk
    \/ Notify
    \/ Sleep

Spec == Init /\ [][Next]_vars

\* the process is one sequential goroutine whose sleeps and blocking calls
\* all end: whenever it can take a step it eventually does
FairSpec == Spec /\ WF_vars(Next)

\* ------------------------------------------- the Page Query run on its own
PageInit ==
    /\ pc = "page"
    \* a date header of two columns, a row of two cells and a row of one cell
    /\ \E nm \in Months, nd \in Days, nt \in TimesOfDay,
          h1 \in HeaderTexts, h2 \in HeaderTexts,
          r1 \in RowHeads, r2 \in RowHeads,
          c1 \in CellKinds, c2 \in CellKinds, c3 \in CellKinds :
          snapshot = [now    |-> [month |-> nm, day |-> nd, tod |-> nt],
                      header |-> <<h1, h2>>,
                      rows   |-> << [head |-> r1, cells |-> <<c1, c2>>],
                                    [head |-> r2, cells |-> <<c3>>] >>]
    /\ pageSlots = <<>>
    /\ backoffNanos = ToInt64(0)
    /\ maxPages = 0
    /\ noNotify = TRUE
    /\ credsOK = FALSE
    /\ consecutiveErrors = 0
    /\ retry = 0
    /\ pagesChecked = 0
    /\ page = 1
    /\ retSlots = <<>>
    /\ retErr = FALSE
    /\ elapsed = 0
    /\ cycleElapsed = 0
    /\ trace = <<>>
    /\ errsSinceOk = 0
    /\ notifyCalls = 0
    /\ httpReqs = 0
    /\ notifyErr = FALSE
    /\ lastHttp = NoHttp
    /\ lastWait = NoWait

\* chromedp.Evaluate(slotScript, &availableSlots) on the snapshot
EvaluateScript ==
    /\ pc = "page"
    /\ pc' = "pageDone"
    /\ pageSlots' = findAvailableSlots(snapshot)
    /\ UNCHANGED <<snapshot, backoffNanos>>
    /\ UNCHANGED mainVars

PageNext == EvaluateScript

PageSpec == PageInit /\ [][PageNext]_vars

\* ------------------------------------ the backoff computation run on its own
BackoffInit ==
    /\ pc = "backoff"
    /\ consecutiveErrors \in 1..MaxCount
    /\ backoffNanos = ToInt64(0)
    /\ snapshot = NoSnapshot
    /\ pageSlots = <<>>
    /\ maxPages = 0
    /\ noNotify = TRUE
    /\ credsOK = FALSE
    /\ retry = 0
    /\ pagesChecked = 0
    /\ page = 0
    /\ retSlots = <<>>
    /\ retErr = TRUE
    /\ elapsed = 0
    /\ cycleElapsed = 0
    /\ trace = <<>>
    /\ errsSinceOk = 0
    /\ notifyCalls = 0
    /\ httpReqs = 0
    /\ notifyErr = FALSE
    /\ lastHttp = NoHttp
    /\ lastWait = NoWait

\* main lines 187-190 for the value the counter has after its increment
ComputeBackoff ==
    /\ pc = "backoff"
    /\ pc' = "backoffDone"
    /\ backoffNanos' = Backoff(consecutiveErrors)
    /\ UNCHANGED pageVars
    /\ UNCHANGED mainVars

BackoffNext == ComputeBackoff

BackoffSpec == BackoffInit /\ [][BackoffNext]_vars

TypeOK ==
    /\ pc \in {"startup", "exit", "loop", "nav", "wait", "query", "readNext",
               "click", "returned", "notify", "sleep", "page", "pageDone",
               "backoff", "backoffDone"}
    /\ maxPages \in 0..MaxPages
    /\ consecutiveErrors \in 0..(IF pc \in {"backoff", "backoffDone"}
                                 THEN MaxCount ELSE MaxErrors)
    /\ retry \in 0..maxRetries
    /\ pagesChecked \in 0..maxPages
    /\ elapsed \in 0..Timeout
    /\ cycleElapsed \in 0..Timeout

\* ----------------------------------------------------- reading the trace
\* the call of CheckAvailability that produced the trace has returned
CallEnded == pc \in {"returned", "notify", "sleep", "loop"}

StepErr(e) == e.out \in {"fail", "timeout"}

IsQuery(e) == e.op = "query"

Queries == SelectSeq(trace, IsQuery)

\* the next control was read as enabled (b) on page p
NextRead(p, b) ==
    \E i \in 1..Len(trace) :
        /\ trace[i].op = "readNext"
        /\ trace[i].out = "ok"
        /\ trace[i].page = p
        /\ trace[i].enabled = b

AllStepsOk == \A i \in 1..Len(trace) : trace[i].out = "ok"

\* ---------------------------------------------------------------- claims

\* C1: when no browser step fails, CheckAvailability queries pages 1, 2, ...
\* in order, each reached through an enabled next control, never more than
\* maxPages of them, and returns the slot list of the first page whose query
\* result is non-empty; it returns an empty result and no error when the
\* budget runs out or the next control is disabled before any slot is found.
C1_FirstNonEmptyPage ==
    (pc = "returned" /\ AllStepsOk) =>
        LET q == Queries
            n == Len(q)
        IN
        /\ ~retErr
        /\ n <= maxPages
        /\ \A i \in 1..n : q[i].page = i
        /\ \A i \in 1..(n - 1) : q[i].slots = <<>> /\ NextRead(i, TRUE)
        /\ IF n > 0 /\ q[n].slots # <<>>
           THEN retSlots = q[n].slots
           ELSE /\ retSlots = <<>>
                /\ n = maxPages \/ (n > 0 /\ NextRead(n, FALSE))

\* C1 witness: slots found on the second page after an empty first page
C1_Witness ==
    /\ pc = "returned"
    /\ AllStepsOk
    /\ Len(Queries) = 2
    /\ retSlots = <<1>>

\* C2 (as claimed): a browser step fails on the deadline only when the
\* running cycle itself has used up the whole timeout.
C2_DeadlinePerCycle ==
    \A i \in 1..Len(trace) :
        trace[i].out = "timeout" => cycleElapsed >= Timeout

C4_CounterIsStreak ==
    /\ pc = "loop" => consecutiveErrors = errsSinceOk
    /\ pc \in {"notify", "sleep"} => consecutiveErrors = 0
    /\ (pc = "loop" /\ lastWait.kind = "interval") => consecutiveErrors = 0

\* C4 witness: a cycle starts after a streak of two failures that followed
\* a full interval sleep (the deadline clock has run out)
C4_Witness ==
    /\ pc = "loop"
    /\ consecutiveErrors = 2
    /\ elapsed >= Timeout

\* C5: a next control read as disabled ends the call: it is the last browser
\* step, and the call returns no slots and no error.
C5_DisabledStops ==
    \A i \in 1..Len(trace) :
        (trace[i].op = "readNext" /\ trace[i].out = "ok" /\ ~trace[i].enabled) =>
            /\ i = Len(trace)
            /\ pc \in {"returned", "sleep", "loop"}
            /\ retSlots = <<>>
            /\ ~retErr

\* C5 witness: the control was found disabled on the second page
C5_Witness ==
    /\ pc = "returned"
    /\ Len(trace) > 0
    /\ trace[Len(trace)].op = "readNext"
    /\ trace[Len(trace)].out = "ok"
    /\ ~trace[Len(trace)].enabled
    /\ trace[Len(trace)].page = 2

\* C6: navigation is attempted at most 3 times and never again after an
\* attempt that succeeded; after 3 failed attempts the call has returned an
\* error with no other browser step, and the loop backs off.
C6_NavRetries ==
    LET navs   == {i \in 1..Len(trace) : trace[i].op = "nav"}
        failed == {i \in navs : StepErr(trace[i])}
    IN
    /\ Cardinality(navs) <= 3
    /\ \A i \in navs : trace[i].out = "ok" => \A j \in navs : j <= i
    /\ Cardinality(failed) = 3 =>
          /\ Len(trace) = 3
          /\ pc \in {"returned", "loop"}
          /\ retErr
          /\ retSlots = <<>>
          /\ errsSinceOk >= 1
          /\ pc = "loop" =>
                /\ lastWait.kind = "backoff"
                /\ consecutiveErrors = errsSinceOk

\* C6 witness: the loop has backed off after three failed navigations
C6_Witness ==
    /\ pc = "loop"
    /\ Len(trace) = 3
    /\ \A i \in 1..3 : trace[i].op = "nav" /\ trace[i].out = "fail"
    /\ lastWait.kind = "backoff"

\* C7: a failed wait, next-control read or click is the last browser step of
\* the call, and the call returns an error and no slots.
C7_StepFailureIsFatal ==
    \A i \in 1..Len(trace) :
        (trace[i].op \in {"wait", "readNext", "click"} /\ StepErr(trace[i])) =>
            /\ i = Len(trace)
            /\ pc \in {"returned", "loop"}
            /\ retErr
            /\ retSlots = <<>>

\* C7 witness: the click of the next control failed
C7_Witness ==
    /\ pc = "returned"
    /\ Len(trace) > 0
    /\ trace[Len(trace)].op = "click"
    /\ trace[Len(trace)].out = "fail"

\* C8: no page is queried twice in a cycle, and a query that found slots is
\* the last browser step of the cycle.
C8_QueryOncePerPage ==
    /\ \A i, j \in 1..Len(trace) :
          (i < j /\ IsQuery(trace[i]) /\ IsQuery(trace[j])) =>
              trace[i].page # trace[j].page
    /\ \A i \in 1..Len(trace) :
          (IsQuery(trace[i]) /\ trace[i].slots # <<>>) =>
              i = Len(trace) /\ CallEnded

\* C8 witness: two pages were queried and the second one had two slots
C8_Witness ==
    /\ CallEnded
    /\ Len(Queries) = 2
    /\ Queries[1].page = 1
    /\ Queries[2].page = 2
    /\ Queries[2].slots = <<1, 2>>

\* C9: with the disabled flag set, a call of the Notifier issues no HTTP
\* request and returns no error.
C9_DisabledNeverPosts ==
    (noNotify /\ notifyCalls > 0) => (httpReqs = 0 /\ ~notifyErr)

\* C9 witness: the Notifier was called with slots while disabled, although
\* the credentials are present
C9_Witness ==
    /\ noNotify
    /\ credsOK
    /\ notifyCalls = 1
    /\ retSlots # <<>>

\* C10: a Notifier error leaves the cycle successful: the counter is 0, and
\* the next step of the loop is the 15-minute sleep, not a backoff.
C10_NotifyErrorNotFatal ==
    [][ /\ pc = "notify" =>
            /\ pc' = "sleep"
            /\ consecutiveErrors' = 0
            /\ lastWait' = lastWait
        /\ (pc = "sleep" /\ notifyErr) =>
            /\ consecutiveErrors = 0
            /\ errsSinceOk = 0
            /\ pc' = "loop"
            /\ consecutiveErrors' = 0
            /\ lastWait' = [kind |-> "interval", secs |-> 900]
      ]_vars

\* C10 witness: the loop slept the interval after a failed HTTP notification
C10_Witness ==
    /\ pc = "loop"
    /\ notifyErr
    /\ httpReqs = 1
    /\ lastWait.kind = "interval"
    /\ consecutiveErrors = 0

\* C11 (as claimed): with notifications enabled, credentials present and
\* slots found, the Notifier reports an error exactly when the POST fails in
\* transport or the status is outside 200..299.
C11_ErrorIffNon2xx ==
    (notifyCalls > 0 /\ ~noNotify /\ credsOK /\ retSlots # <<>>) =>
        /\ lastHttp.sent
        /\ notifyErr <=>
              (~lastHttp.transportOK \/ lastHttp.status < 200 \/ lastHttp.status > 299)

\* C11 (amended): with notifications enabled, credentials present and slots
\* found, the Notifier issues one POST and reports an error exactly when the
\* POST fails in transport or the status is not 200; only 200 is a success.
C11_ErrorIffNot200 ==
    (notifyCalls > 0 /\ ~noNotify /\ credsOK /\ retSlots # <<>>) =>
        /\ lastHttp.sent
        /\ httpReqs = 1
        /\ notifyErr <=> (~lastHttp.transportOK \/ lastHttp.status # 200)

\* C11 witness: the endpoint answered 204 and the send was reported failed
C11_Witness ==
    /\ notifyCalls = 1
    /\ ~noNotify
    /\ credsOK
    /\ retSlots # <<>>
    /\ lastHttp.transportOK
    /\ lastHttp.status = 204
    /\ notifyErr

\* the latest browser step of the running call panicked
PanicRaised == Len(trace) > 0 /\ trace[Len(trace)].out = "panic"

\* the process loop has just called CheckAvailability
NewCycle == pc = "nav" /\ trace = <<>>

\* C12: after a panic in a browser step of a cycle the process does not
\* end: the loop eventually starts a further cycle.
C12_PanicThenNextCycle == PanicRaised ~> NewCycle

\* C12 witness: the evaluation of the Page Query script panicked
C12_Witness ==
    /\ PanicRaised
    /\ trace[Len(trace)].op = "query"
    /\ pc = "returned"

\* the process is inside the for loop of main
InLoop == pc \notin {"startup", "exit"}

\* the error counter has reached the bound of the model
AtCap == pc = "returned" /\ retErr /\ consecutiveErrors = MaxErrors

\* C13: the loop never ends on its own; after every cycle that returned
\* without error it sleeps 15 minutes and then starts another cycle, and from
\* every point of the loop a new cycle is eventually started (as long as the
\* error counter is below the bound of the model).
C13_LoopForever ==
    /\ [][ /\ InLoop => pc' # "exit"
           /\ pc = "sleep" =>
                 pc' = "loop" /\ lastWait' = [kind |-> "interval", secs |-> 900]
           /\ pc = "loop" => pc' = "nav"
         ]_vars
    /\ (pc = "returned" /\ ~retErr) ~> (NewCycle /\ lastWait.kind = "interval")
    /\ InLoop ~> (NewCycle \/ AtCap)

\* C13 witness: a cycle starts after the interval sleep that followed a
\* cycle without slots
C13_Witness ==
    /\ NewCycle
    /\ lastWait = [kind |-> "interval", secs |-> 900]
    /\ retSlots = <<>>
    /\ ~retErr

\* ------------------------------------------------ reading a Page Query run
\* the places (row, column) of the cells of the snapshot
Places ==
    {rc \in (1..Len(snapshot.rows)) \X (1..2) :
        rc[2] <= Len(snapshot.rows[rc[1]].cells)}

CellAt(rc) == snapshot.rows[rc[1]].cells[rc[2]]

RowAt(rc) == snapshot.rows[rc[1]].head

\* the header text of the column of a place (NoDate when there is none)
HeaderAt(rc) ==
    IF rc[2] <= Len(snapshot.header) THEN snapshot.header[rc[2]] ELSE <<>>

MonthOf(t) == 10 * t[1] + t[2]

DayOf(t) == 10 * t[3] + t[4]

\* number of returned slots that carry the date text t
SlotsDated(t) ==
    Cardinality({i \in 1..Len(pageSlots) : pageSlots[i].date = t})

\* the place is in a data row of the target location and category
InTargetRow(rc) ==
    /\ RowAt(rc).id # "height_head"
    /\ RowAt(rc).id # "height_headday"
    /\ RowAt(rc).location = "Fuchu"
    /\ RowAt(rc).category = "ResidentOther"

\* the cell is marked selectable and available
MarkedAvailable(rc) ==
    CellAt(rc).tdSelect /\ CellAt(rc).enable /\ CellAt(rc).availableSVG

\* the date t, at midnight, is not before now: a month below the current one
\* is next year's, a later month or day is ahead, today counts at 00:00:00
NotPast(t) ==
    \/ MonthOf(t) < snapshot.now.month
    \/ MonthOf(t) > snapshot.now.month
    \/ DayOf(t) > snapshot.now.day
    \/ (DayOf(t) = snapshot.now.day /\ snapshot.now.tod = 0)

\* the cells the Page Query has to report
Wanted ==
    {rc \in Places :
        /\ InTargetRow(rc)
        /\ MarkedAvailable(rc)
        /\ HeaderAt(rc) # <<>>
        /\ NotPast(HeaderAt(rc))
        /\ ~CellAt(rc).closedMark}

C15_NeverBeforeToday ==
    pc = "pageDone" =>
        \A i \in 1..Len(pageSlots) :
            LET t == pageSlots[i].date IN
            \/ MonthOf(t) > snapshot.now.month
            \/ (MonthOf(t) = snapshot.now.month /\ DayOf(t) >= snapshot.now.day)

\* C15 (amended): no returned slot is dated in the current month on a day
\* before the current day; a cell whose month is below the current month is
\* dated next year and is returned when it qualifies otherwise.
C15_NeverEarlierDayOfMonth ==
    pc = "pageDone" =>
        /\ \A i \in 1..Len(pageSlots) :
              LET t == pageSlots[i].date IN
              MonthOf(t) = snapshot.now.month => DayOf(t) >= snapshot.now.day
        /\ \A rc \in Places :
              ( /\ InTargetRow(rc)
                /\ MarkedAvailable(rc)
                /\ ~CellAt(rc).closedMark
                /\ HeaderAt(rc) # <<>>
                /\ MonthOf(HeaderAt(rc)) < snapshot.now.month )
              => SlotsDated(HeaderAt(rc)) > 0

\* C15 witness: the only available cell is dated the 1st of the current
\* month on the 15th, and nothing is returned
C15_Witness ==
    /\ pc = "pageDone"
    /\ snapshot.now.day = 15
    /\ snapshot.header[1] = DateText(snapshot.now.month, 1)
    /\ InTargetRow(<<1, 1>>)
    /\ MarkedAvailable(<<1, 1>>)
    /\ ~CellAt(<<1, 1>>).closedMark
    /\ pageSlots = <<>>

\* C16: a closed cell is never reported: the slots returned with a date are
\* no more than the cells without closed marker under that date.
C16_ClosedNeverIncluded ==
    pc = "pageDone" =>
        \A t \in HeaderTexts :
            SlotsDated(t) <=
                Cardinality({rc \in Places :
                                HeaderAt(rc) = t /\ ~CellAt(rc).closedMark})

\* C16 witness: a cell marked available and closed, in a target row and
\* dated ahead, is left out while another cell is returned
C16_Witness ==
    /\ pc = "pageDone"
    /\ InTargetRow(<<1, 1>>)
    /\ MarkedAvailable(<<1, 1>>)
    /\ CellAt(<<1, 1>>).closedMark
    /\ HeaderAt(<<1, 1>>) # <<>>
    /\ NotPast(HeaderAt(<<1, 1>>))
    /\ HeaderAt(<<1, 2>>) # HeaderAt(<<1, 1>>)
    /\ Len(pageSlots) = 1
    /\ pageSlots[1].date = HeaderAt(<<1, 2>>)

\* ------------------------------------------------------- counting the trace
\* positions of the trace with a step of kind op
StepsOf(op) == {i \in 1..Len(trace) : trace[i].op = op}

\* successful clicks before position i
ClicksBefore(i) ==
    Cardinality({j \in 1..(i - 1) : trace[j].op = "click" /\ trace[j].out = "ok"})

\* what the steps of the call alone say it returns: the slots of a final
\* query that found some, else none
SeenSlots ==
    IF Len(trace) > 0 /\ trace[Len(trace)].op = "query"
    THEN trace[Len(trace)].slots
    ELSE <<>>

\* what the steps of the call alone say about the error: a failed final
\* step other than the query, the navigation only at its third failure
SeenErr ==
    /\ Len(trace) > 0
    /\ StepErr(trace[Len(trace)])
    /\ trace[Len(trace)].op # "query"
    /\ trace[Len(trace)].op = "nav" => Len(trace) = 3

\* C17: every call starts with the navigation and pages on from the first
\* page whatever page the browser showed before; what the call returns and
\* whether the Notifier is called is fixed by the browser steps of that call
\* alone; a new call starts with no step, retry or page count left over.
C17_CyclesIndependent ==
    /\ [](/\ Len(trace) > 0 => trace[1].op = "nav"
          /\ \A i \in 1..Len(trace) :
                trace[i].op \in {"wait", "query", "readNext", "click"} =>
                    trace[i].page = 1 + ClicksBefore(i)
          /\ pc = "returned" => (retSlots = SeenSlots /\ retErr = SeenErr)
          /\ pc = "notify" => (SeenSlots # <<>> /\ ~SeenErr)
          /\ (pc = "sleep" /\ notifyCalls = 0) => SeenSlots = <<>>)
    /\ [][pc = "loop" =>
             /\ pc' = "nav"
             /\ trace' = <<>>
             /\ retry' = 0
             /\ pagesChecked' = 0
             /\ notifyCalls' = 0
             /\ httpReqs' = 0
             /\ consecutiveErrors' = consecutiveErrors]_vars

\* C17 witness: a cycle that starts while the browser still shows the second
\* page, where the cycle before failed, queries page 1
C17_Witness ==
    /\ pc = "readNext"
    /\ lastWait.kind = "backoff"
    /\ consecutiveErrors = 1
    /\ Len(trace) = 3
    /\ trace[1].page = 2
    /\ trace[3].op = "query"
    /\ trace[3].page = 1
    /\ trace[3].slots = <<>>

\* C18: in one call the loop body runs at most maxPages times: at most
\* maxPages waits, queries, reads of the next control and clicks.
C18_AtMostMaxPages ==
    /\ Cardinality(StepsOf("wait")) <= maxPages
    /\ Cardinality(StepsOf("query")) <= maxPages
    /\ Cardinality(StepsOf("readNext")) <= maxPages
    /\ Cardinality(StepsOf("click")) <= maxPages
    /\ pagesChecked <= maxPages

\* C18 witness: the whole budget of two pages was used, clicks included
C18_Witness ==
    /\ maxPages = 2
    /\ Cardinality(StepsOf("query")) = 2
    /\ Cardinality(StepsOf("click")) = 2
    /\ pc = "returned"

\* C19: the Notifier is called at most once per cycle, and only for a cycle
\* that returned no error and at least one slot.
C19_NotifyOnlyWithSlots ==
    /\ notifyCalls <= 1
    /\ (notifyCalls > 0 \/ pc = "notify") => (~retErr /\ retSlots # <<>>)
    /\ (InLoop /\ notifyCalls = 0) => httpReqs = 0 \/ pc = "loop"

\* C19 witness: the Notifier was called once for a cycle with two slots
C19_Witness ==
    /\ pc = "sleep"
    /\ notifyCalls = 1
    /\ retSlots = <<1, 2>>
    /\ ~retErr

\* the step at position i is an evaluation of the Page Query that failed
QueryFailedAt(i) == trace[i].op = "query" /\ StepErr(trace[i])

\* C21: a failed evaluation of the Page Query is not an error of the cycle:
\* the page counts as having no slots, the call does not return on it, and
\* the next browser step is the read of the next control on the same page;
\* when that read finds the control enabled the call clicks on to the next
\* page, when it finds it disabled the call ends with no slots and no error.
C21_EvaluateFailureNotFatal ==
    \A i \in 1..Len(trace) :
        QueryFailedAt(i) =>
            /\ trace[i].slots = <<>>
            /\ i = Len(trace) => pc = "readNext"
            /\ i < Len(trace) =>
                  /\ trace[i + 1].op = "readNext"
                  /\ trace[i + 1].page = trace[i].page
                  /\ (trace[i + 1].out = "ok" /\ trace[i + 1].enabled) =>
                        IF i + 1 = Len(trace) THEN pc = "click"
                        ELSE trace[i + 2].op = "click"
                  /\ (trace[i + 1].out = "ok" /\ ~trace[i + 1].enabled) =>
                        /\ i + 1 = Len(trace)
                        /\ CallEnded
                        /\ retSlots = <<>>
                        /\ ~retErr

\* C21 witness: the evaluation failed on page 1, the call went on to page 2
\* and returned the slot found there
C21_Witness ==
    /\ pc = "returned"
    /\ ~retErr
    /\ retSlots = <<1>>
    /\ \E i \in 1..Len(trace) :
          QueryFailedAt(i) /\ trace[i].page = 1 /\ trace[i].out = "fail"

\* C22: a cycle that panicked is handled like a cycle that succeeded with no
\* slots: the call has returned no slots and no error, the loop resets the
\* counter to 0, calls no Notifier and issues no HTTP request, and its next
\* wait is the 15-minute sleep, not a backoff.
C22_PanicLikeEmptySuccess ==
    [][ /\ (pc = "returned" /\ PanicRaised) =>
            /\ retSlots = <<>>
            /\ ~retErr
            /\ pc' = "sleep"
            /\ consecutiveErrors' = 0
            /\ notifyCalls' = 0
            /\ httpReqs' = 0
            /\ lastWait' = lastWait
        /\ (pc = "sleep" /\ PanicRaised) =>
            /\ consecutiveErrors = 0
            /\ notifyCalls = 0
            /\ httpReqs = 0
            /\ pc' = "loop"
            /\ consecutiveErrors' = 0
            /\ lastWait' = [kind |-> "interval", secs |-> 900]
      ]_vars

\* C22 witness: the cycle after a failed one panicked in the click; the
\* counter is back at 0 and the loop is about to sleep the interval
C22_Witness ==
    /\ pc = "sleep"
    /\ PanicRaised
    /\ trace[Len(trace)].op = "click"
    /\ lastWait.kind = "backoff"
    /\ consecutiveErrors = 0

\* a <= b on int64
LessEq64(a, b) == ~Less64(b, a)

\* C23 (as claimed): for every value n >= 1 of the counter the backoff
\* duration is at least 1 second and at most 5 minutes, and it is not below
\* the duration for n - 1.
C23_BackoffBounded ==
    pc = "backoffDone" =>
        /\ LessEq64(Second, backoffNanos)
        /\ LessEq64(backoffNanos, FiveMinutes)
        /\ consecutiveErrors > 1 =>
              LessEq64(Backoff(consecutiveErrors - 1), backoffNanos)

\* C24: notifications stay disabled once they are: empty credentials and a
\* failed start-up test both leave the flag set, the flag is never cleared,
\* and no step taken with the flag set issues an HTTP request or leaves one
\* counted for the cycle; polling goes on: with the flag set the loop never
\* ends, always has a next step (below the bound of the error counter), goes
\* from the Notifier call to the interval sleep and from there to a new cycle.
C24_DisabledForGood ==
    /\ [](~credsOK => noNotify)
    /\ []((noNotify /\ InLoop /\ ~AtCap) => ENABLED Next)
    /\ [][ /\ (pc = "startup" /\ pc' = "loop" /\ notifyErr') => noNotify'
           /\ noNotify => (noNotify' /\ httpReqs' = 0)
           /\ (noNotify /\ InLoop) => pc' # "exit"
           /\ (noNotify /\ pc = "notify") => pc' = "sleep"
           /\ (noNotify /\ pc = "sleep") => pc' = "loop"
           /\ (noNotify /\ pc = "loop") => pc' = "nav"
         ]_vars

\* C24 witness: notifications are disabled although the credentials are
\* present (by the flag or by a failed start-up test), and a cycle found
\* slots and called the Notifier, which sent nothing
C24_Witness ==
    /\ credsOK
    /\ noNotify
    /\ pc = "sleep"
    /\ retSlots # <<>>
    /\ notifyCalls = 1
    /\ httpReqs = 0

\* the cell is reported unless its date rules it out
OtherwiseQualifies(rc) ==
    /\ InTargetRow(rc)
    /\ MarkedAvailable(rc)
    /\ ~CellAt(rc).closedMark
    /\ HeaderAt(rc) # <<>>

\* C25: the date of a cell counts at midnight of its day against the Tokyo
\* time of day: an otherwise qualifying cell dated today is left out when the
\* time is after 00:00:00 and reported at 00:00:00, and one dated a later day
\* of the current month or a later month of the year is reported.
C25_TodayAfterMidnightSkipped ==
    pc = "pageDone" =>
        \A rc \in Places :
            OtherwiseQualifies(rc) =>
                LET t     == HeaderAt(rc)
                    today == /\ MonthOf(t) = snapshot.now.month
                             /\ DayOf(t) = snapshot.now.day
                    later == \/ MonthOf(t) > snapshot.now.month
                             \/ /\ MonthOf(t) = snapshot.now.month
                                /\ DayOf(t) > snapshot.now.day
                    cells == {c \in Places :
                                 OtherwiseQualifies(c) /\ HeaderAt(c) = t}
                IN
                /\ (today /\ snapshot.now.tod > 0) => SlotsDated(t) = 0
                /\ (today /\ snapshot.now.tod = 0) =>
                      SlotsDated(t) = Cardinality(cells)
                /\ later => SlotsDated(t) = Cardinality(cells)

\* C25 witness: one second after midnight of the 1st, the cell dated the 1st
\* is left out and the cell dated the 15th is reported
C25_Witness ==
    /\ pc = "pageDone"
    /\ snapshot.now.day = 1
    /\ snapshot.now.tod = 1
    /\ snapshot.header[1] = DateText(snapshot.now.month, 1)
    /\ snapshot.header[2] = DateText(snapshot.now.month, 15)
    /\ OtherwiseQualifies(<<1, 1>>)
    /\ OtherwiseQualifies(<<1, 2>>)
    /\ Len(pageSlots) = 1
    /\ pageSlots[1].date = snapshot.header[2]

\* C20 (as claimed): in a call without step failure every click is followed
\* by a query on the page it brought up; when the budget runs out without a
\* slot, maxPages pages were queried, the control was clicked maxPages - 1
\* times and the logged page count is the number of pages queried.
C20_ClickThenQuery ==
    (pc = "returned" /\ AllStepsOk) =>
        /\ \A i \in StepsOf("click") :
              \E j \in StepsOf("query") : j > i /\ trace[j].page = trace[i].page + 1
        /\ ( /\ maxPages >= 1
             /\ retSlots = <<>>
             /\ trace[Len(trace)].op # "readNext" ) =>
              /\ Cardinality(StepsOf("query")) = maxPages
              /\ Cardinality(StepsOf("click")) = maxPages - 1
              /\ LoggedPages = Cardinality(StepsOf("query"))

====
